---- MODULE Spec2Model ----
(***************************************************************************)
(* Model of the authentication gate (endpoints/auth.js) and of the order   *)
(* handlers (endpoints/orders.js) of the food-ordering API.                *)
(*                                                                         *)
(* A request is followed through its asynchronous steps: the synchronous   *)
(* part of authenticateToken (header extraction and jwt.verify), the       *)
(* resolution of User.findOne, and then the awaits of the handler.  The    *)
(* identity store and the order store are shared by all requests in        *)
(* flight; the user-management collaborator acts on the identity store     *)
(* between any two steps.                                                  *)
(***************************************************************************)
EXTENDS Integers, Sequences, FiniteSets

\* ------------------------------------------------------------------ bounds
MaxOrders == 1      \* order ids ever handed out
MaxClock  == 1      \* ticks of the wall clock

Req      == {1}     \* the slot of the request that is followed through the API
Slots    == {1, 2}  \* Req and the slot of a second request at the gate
OrderIds == 1..MaxOrders
UserIds  == {1, 2}             \* u1 (role User) and admin1 (role Admin)

\* ------------------------------------------------------------------- state
VARIABLES
    users,      \* identity store: user id -> Null or [t, role]
    orders,     \* order store: order id -> Null or [t, user, type]
    created,    \* number of order ids handed out so far
    creator,    \* history: order id -> id of the principal whose POST stored it
    now,        \* wall clock
    req         \* the requests in flight

vars == <<users, orders, created, creator, now, req>>

\* --------------------------------------------------------------- JS values
\* A JS value is tagged with its type, so that === between an ObjectId and a
\* string is false, as it is in the program.
Undefined == [t |-> "undefined", v |-> 0]
Null      == [t |-> "null", v |-> 0]
Oid(n)    == [t |-> "oid", v |-> n]
Str(n)    == [t |-> "str", v |-> n]

\* ObjectId.prototype.toString(): the hex string of the same 12 bytes.
RawObjectId(x) == x
OidToString(x) == IF x.t = "oid" THEN Str(x.v) ELSE x

\* Mongoose casts the string of a query condition {_id: "<hex>"} to an ObjectId.
CastObjectId(x) == IF x.t = "str" THEN Oid(x.v) ELSE x

\* a !== b
StrictNotEqual(a, b) == ~(a.t = b.t /\ a.v = b.v)

\* ---------------------------------------------------- authorization header
\* A header string is a sequence of atoms: the scheme words, the space, and
\* whole tokens.  The empty string is <<>>.
SP         == [k |-> "sp", id |-> 0, sig |-> "", exp |-> 0, role |-> ""]
Word(w)    == [k |-> w, id |-> 0, sig |-> "", exp |-> 0, role |-> ""]
Jwt(u, s, e) == [k |-> "jwt", id |-> u, sig |-> s, exp |-> e, role |-> ""]
\* a token whose payload carries a role next to the id
JwtWithRole(u, s, e, role) == [k |-> "jwt", id |-> u, sig |-> s, exp |-> e, role |-> role]

\* Tokens in circulation: a long-lived one per identity, one of identity 1
\* that runs out at instant 1 and carries the role Admin in its payload, and
\* one of identity 1 signed with another key.
GoodTokens == {Jwt(u, "good", MaxClock + 1) : u \in UserIds}
                 \cup {JwtWithRole(1, "good", 1, "Admin")}
BadTokens  == {Jwt(1, "bad", MaxClock + 1)}
Tokens     == GoodTokens \cup BadTokens

NoHeader  == [present |-> FALSE, chars |-> <<>>]
Header(s) == [present |-> TRUE, chars |-> s]

HeaderSet ==
    {NoHeader, Header(<<>>), Header(<<Word("Bearer")>>),
     Header(<<Word("Bearer"), SP>>),
     Header(<<Word("Bearer"), SP, Word("garbage")>>)}
    \cup {Header(<<Word("Bearer"), SP, tk>>) : tk \in Tokens}
    \cup {Header(<<Word("Basic"), SP, Jwt(1, "good", MaxClock + 1)>>)}

\* String.prototype.split(' '): the pieces between the spaces.
RECURSIVE Split(_)
Split(s) ==
    IF s = <<>> THEN << <<>> >>
    ELSE LET rest == Split(Tail(s))
         IN  IF Head(s) = SP
             THEN << <<>> >> \o rest
             ELSE << <<Head(s)>> \o Head(rest) >> \o Tail(rest)

\* A possibly undefined string.
UndefStr   == [def |-> FALSE, chars |-> <<>>]
DefStr(s)  == [def |-> TRUE, chars |-> s]

\* const token = authHeader && authHeader.split(' ')[1];
ExtractToken(h) ==
    IF ~h.present THEN UndefStr
    ELSE IF h.chars = <<>> THEN DefStr(<<>>)
    ELSE LET parts == Split(h.chars)
         IN  IF Len(parts) >= 2 THEN DefStr(parts[2]) ELSE UndefStr

\* token == null
NeverNullish(tok) == FALSE
IsNullish(tok) == ~tok.def

\* jwt.verify(token, secret, callback): the (error, payload) handed to the
\* callback: payload is the id of the payload, role the role the payload
\* carries, if any.  The checks run in the library's order.
NoError == "none"
JwtDecodeOnly(s, clock) ==
    IF s = <<>> THEN [error |-> "JsonWebTokenError", payload |-> Null, role |-> ""]
    ELSE IF Len(s) # 1 \/ s[1].k # "jwt"
         THEN [error |-> "JsonWebTokenError", payload |-> Null, role |-> ""]
    ELSE IF clock >= s[1].exp
         THEN [error |-> "TokenExpiredError", payload |-> Null, role |-> ""]
    ELSE [error |-> NoError, payload |-> Str(s[1].id), role |-> s[1].role]
JwtIgnoreExpiration(s, clock) ==
    IF s = <<>> THEN [error |-> "JsonWebTokenError", payload |-> Null, role |-> ""]
    ELSE IF Len(s) # 1 \/ s[1].k # "jwt"
         THEN [error |-> "JsonWebTokenError", payload |-> Null, role |-> ""]
    ELSE IF s[1].sig # "good"
         THEN [error |-> "JsonWebTokenError", payload |-> Null, role |-> ""]
    ELSE [error |-> NoError, payload |-> Str(s[1].id), role |-> s[1].role]
JwtVerifyNoReplay(s, clock) ==
    IF s = <<>> THEN [error |-> "JsonWebTokenError", payload |-> Null, role |-> ""]
    ELSE IF Len(s) # 1 \/ s[1].k # "jwt"
         THEN [error |-> "JsonWebTokenError", payload |-> Null, role |-> ""]
    ELSE IF s[1].sig # "good"
         THEN [error |-> "JsonWebTokenError", payload |-> Null, role |-> ""]
    ELSE IF clock >= s[1].exp
         THEN [error |-> "TokenExpiredError", payload |-> Null, role |-> ""]
    ELSE IF \E q \in DOMAIN req :
                /\ "verify" \in req[q].calls /\ req[q].header.present
                /\ Len(req[q].header.chars) = 3 /\ req[q].header.chars[3] = s[1]
         THEN [error |-> "JsonWebTokenError", payload |-> Null, role |-> ""]
    ELSE [error |-> NoError, payload |-> Str(s[1].id), role |-> s[1].role]
JwtVerify(s, clock) ==
    IF s = <<>> THEN [error |-> "JsonWebTokenError", payload |-> Null, role |-> ""]
    ELSE IF Len(s) # 1 \/ s[1].k # "jwt"
         THEN [error |-> "JsonWebTokenError", payload |-> Null, role |-> ""]
    ELSE IF s[1].sig # "good"
         THEN [error |-> "JsonWebTokenError", payload |-> Null, role |-> ""]
    ELSE IF clock >= s[1].exp
         THEN [error |-> "TokenExpiredError", payload |-> Null, role |-> ""]
    ELSE [error |-> NoError, payload |-> Str(s[1].id), role |-> s[1].role]


UserDoc(role) == [t |-> "doc", role |-> role]
OrderDoc(owner, type) == [t |-> "doc", user |-> owner, type |-> type]

\* !doc for the result of a findOne
NotFound(doc) == doc = Null \/ doc = Undefined

\* User.findOne({_id: id}) at the moment it reads the store
UserFindOneAny(store, id) == store[1]
UserFindOne(store, id) ==
    LET k == CastObjectId(id)
    IN  IF k.t = "oid" /\ k.v \in DOMAIN store THEN store[k.v] ELSE Null

\* Order.findOne({_id: id}) at the moment it reads the store
OrderFindOne(store, id) ==
    LET k == CastObjectId(id)
    IN  IF k.t = "oid" /\ k.v \in DOMAIN store THEN store[k.v] ELSE Null

NoBody == [user |-> Undefined, type |-> "Box1"]
Idle ==
    [pc |-> "idle", method |-> "", header |-> NoHeader, user |-> Null,
     claim |-> Null, claimRole |-> "", seen |-> Null, target |-> Null,
     body |-> NoBody, status |-> 0, json |-> Null, calls |-> {}]

\* GET /order/:orderID, POST /order, PUT /order, DELETE /order/:orderID,
\* GET /orders/user/:userID and GET /orders/all
Methods == {"GET", "POST", "PUT", "DELETE", "LIST_USER", "LIST_ALL"}
\* the routes of the requests that are followed two at a time
GateMethods == {"GET", "DELETE"}

PostTypes == {"Box1", "Box2", "Box3"}
PutTypes  == {"Box1", "Box2"}
BodyUsers == {Undefined} \cup {Str(u) : u \in UserIds}
TargetIds == {Str(o) : o \in OrderIds}
ParamUsers == {Str(u) : u \in UserIds}

\* res.status(s).json(j) / res.sendStatus(s)
Respond(r, s, j) == [r EXCEPT !.pc = "done", !.status = s, !.json = j]


\* ------------------------------------------------------ authentication gate
\* if (!userFound) in the findOne callback
NeverMissing(userFound) == FALSE
UserMissing(userFound) == NotFound(userFound)

\* assert(userFound.role, 'User must have a role')
AssertSkipped(role) == TRUE
AssertOk(role) == role # ""

\* What the findOne callback of authenticateToken does with the record it is
\* handed: "403", "fault" (an exception thrown inside the promise callback,
\* which nothing catches: no response is sent and next() is not called) or
\* "next".
LookupOutcome(userFound) ==
    IF UserMissing(userFound) THEN "403"
    ELSE IF NotFound(userFound) THEN "fault"       \* TypeError: userFound.role
    ELSE IF ~AssertOk(userFound.role) THEN "fault" \* AssertionError
    ELSE "next"

\* Synchronous part of authenticateToken on the request r0: the header is
\* read, the token is extracted and jwt.verify runs its callback; on success
\* User.findOne is issued.
SyncGatePerRoute(r0, clock) ==
    LET token == ExtractToken(r0.header)
    IN  IF IsNullish(token)
        THEN Respond(r0, IF r0.method = "GET" THEN 403 ELSE 401, Null)
        ELSE LET v  == JwtVerify(token.chars, clock)
                 r1 == [r0 EXCEPT !.calls = {"verify"}]
             IN  IF v.error # NoError
                 THEN Respond(r1, 403, Null)
                 ELSE [r1 EXCEPT !.pc = "lookup", !.claim = v.payload,
                                 !.claimRole = v.role,
                                 !.calls = {"verify", "findOne"}]
SyncGateNoReturn(r0, clock) ==
    LET token == ExtractToken(r0.header)
    IN  IF IsNullish(token)
        THEN Respond(r0, 401, Null)
        ELSE LET v  == JwtVerify(token.chars, clock)
                 r1 == [r0 EXCEPT !.calls = {"verify"}]
             IN  [r1 EXCEPT !.pc = "lookup", !.claim = v.payload,
                            !.claimRole = v.role,
                            !.status = IF v.error # NoError THEN 403 ELSE 0,
                            !.calls = {"verify", "findOne"}]
SyncGate(r0, clock) ==
    LET token == ExtractToken(r0.header)
    IN  IF IsNullish(token)
        THEN Respond(r0, 401, Null)
        ELSE LET v  == JwtVerify(token.chars, clock)
                 r1 == [r0 EXCEPT !.calls = {"verify"}]
             IN  IF v.error # NoError
                 THEN Respond(r1, 403, Null)
                 ELSE [r1 EXCEPT !.pc = "lookup", !.claim = v.payload,
                                 !.claimRole = v.role,
                                 !.calls = {"verify", "findOne"}]

\* A request for one of the routes ms arrives in slot r and authenticateToken
\* runs its synchronous part.
Arrive(r, ms) ==
    /\ req[r].pc = "idle"
    /\ \E h \in HeaderSet, m \in ms :
         /\ m = "POST" =>
              created + Cardinality({q \in Slots : req[q].method = "POST"
                                        /\ req[q].pc \notin {"idle", "done", "fault"}})
                < MaxOrders
         /\ req' = [req EXCEPT ![r] =
                       SyncGate([Idle EXCEPT !.header = h, !.method = m], now)]
    /\ UNCHANGED <<users, orders, created, creator, now>>

Authenticate(r) == Arrive(r, Methods)

\* The same for a request that is followed together with another one.
AuthenticateAtGate(r) == Arrive(r, GateMethods)

\* const newOrder = new Order({...req.body}); newOrder.user = req.user.id;
NewOrderKeepsBodyUser(body, uid) ==
    OrderDoc(IF body.user = Undefined THEN CastObjectId(uid) ELSE CastObjectId(body.user),
             body.type)
NewOrder(body, uid) == OrderDoc(CastObjectId(uid), body.type)

\* This is an admin-only operation: if(req.user.role !== "Admin")
ListUserDeniedUnlessSelf(user, userID) ==
    user.role # "Admin" /\ StrictNotEqual(userID, user.id)
ListUserDenied(user, userID) == user.role # "Admin"

\* next(): the handler runs up to its first await.
EnterHandler(r1) ==
    CASE r1.method = "POST" ->
           {[r1 EXCEPT !.pc = "h_exists", !.body = b] :
               b \in [user : BodyUsers, type : PostTypes]}
      [] r1.method = "PUT" ->
           {[r1 EXCEPT !.pc = "h_find", !.target = id, !.body = b] :
               id \in TargetIds, b \in [user : BodyUsers, type : PutTypes]}
      [] r1.method = "LIST_USER" ->
           {IF ListUserDenied(r1.user, id)
            THEN Respond([r1 EXCEPT !.target = id], 403, Null)
            ELSE [r1 EXCEPT !.pc = "h_list", !.target = id,
                            !.calls = @ \cup {"Order.find"}] :
               id \in ParamUsers}
      [] r1.method = "LIST_ALL" ->
           {[r1 EXCEPT !.pc = "h_all", !.calls = @ \cup {"Order.find"}]}
      [] OTHER ->
           {[r1 EXCEPT !.pc = "h_find", !.target = id] : id \in TargetIds}

\* user.role = userFound.role; req.user = user;
PrincipalKeepsTokenRole(claimId, claimRole, userFound) ==
    [id |-> claimId, role |-> IF claimRole # "" THEN claimRole ELSE userFound.role]
PrincipalShared(claimId, claimRole, userFound) ==
    LET later == {q \in DOMAIN req : req[q].pc = "lookup" /\ req[q].claim # claimId}
    IN  [id |-> IF later = {} THEN claimId ELSE req[CHOOSE q \in later : TRUE].claim,
         role |-> userFound.role]
Principal(claimId, claimRole, userFound) ==
    [id |-> claimId, role |-> userFound.role]

\* The promise of User.findOne resolves: the callback of authenticateToken
\* runs, and on success the handler runs up to its first await.
UserLookupResolvesRepairs(r) ==
    /\ req[r].pc = "lookup"
    /\ LET userFound == UserFindOne(users, req[r].claim)
           r1        == [req[r] EXCEPT !.seen = userFound]
       IN  IF UserMissing(userFound)
           THEN /\ req' = [req EXCEPT ![r] = Respond(r1, 403, Null)]
                /\ users' = users
           ELSE LET fixed == IF AssertOk(userFound.role) THEN userFound
                             ELSE UserDoc("User")
                IN  /\ users' = [users EXCEPT ![CastObjectId(req[r].claim).v] = fixed]
                    /\ \E r2 \in EnterHandler(
                           [r1 EXCEPT !.user = Principal(req[r].claim, req[r].claimRole,
                                                         fixed),
                                      !.calls = @ \cup {"handler"}]) :
                          req' = [req EXCEPT ![r] = r2]
    /\ UNCHANGED <<orders, created, creator, now>>
UserLookupResolves(r) ==
    /\ req[r].pc = "lookup"
    /\ LET userFound == UserFindOne(users, req[r].claim)
           out       == LookupOutcome(userFound)
           r1        == [req[r] EXCEPT !.seen = userFound]
       IN  CASE out = "403" ->
                  req' = [req EXCEPT ![r] = Respond(r1, 403, Null)]
             [] out = "fault" ->
                  req' = [req EXCEPT ![r] = [r1 EXCEPT !.pc = "fault"]]
             [] OTHER ->
                  \E r2 \in EnterHandler(
                        [r1 EXCEPT !.user = Principal(req[r].claim, req[r].claimRole,
                                                      userFound),
                                   !.calls = @ \cup {"handler"}]) :
                     req' = [req EXCEPT ![r] = r2]
    /\ UNCHANGED <<users, orders, created, creator, now>>

\* ------------------------------------------------------------ order handlers
\* req.user.role !== "Admin" && orderFound.user.toString() !== req.user.id,
\* as evaluated inside if(orderFound) by GET /order/:orderID
GetDeniedRereads(user, orderFound) ==
    /\ LET current == UserFindOne(users, user.id)
       IN  NotFound(current) \/ current.role # "Admin"
    /\ StrictNotEqual(OidToString(orderFound.user), user.id)
GetDenied(user, orderFound) ==
    user.role # "Admin" /\ StrictNotEqual(OidToString(orderFound.user), user.id)

\* The same condition as PUT /order evaluates it, before looking at
\* orderFound: "throw" is the TypeError of null.user.
PutCheckOwnerOnly(user, orderFound) ==
    IF NotFound(orderFound) THEN "throw"
    ELSE IF StrictNotEqual(OidToString(orderFound.user), user.id) THEN "deny"
    ELSE "pass"
PutCheckExistsFirst(user, orderFound) ==
    IF NotFound(orderFound) THEN "pass"
    ELSE IF user.role # "Admin"
              /\ StrictNotEqual(OidToString(orderFound.user), user.id) THEN "deny"
    ELSE "pass"
PutCheck(user, orderFound) ==
    IF user.role # "Admin"
    THEN IF NotFound(orderFound) THEN "throw"
         ELSE IF StrictNotEqual(OidToString(orderFound.user), user.id) THEN "deny"
         ELSE "pass"
    ELSE "pass"

\* The same condition as DELETE /order/:orderID evaluates it.
DeleteCheck(user, orderFound) ==
    IF user.role # "Admin"
    THEN IF NotFound(orderFound) THEN "throw"
         ELSE IF StrictNotEqual(OidToString(orderFound.user), user.id) THEN "deny"
         ELSE "pass"
    ELSE "pass"

\* Order.findByIdAndUpdate(id, req.body, {new: true}): every field the body
\* carries is set on the stored order; an absent order stays absent.
FindByIdAndUpdate(store, id, body) ==
    LET k == CastObjectId(id)
    IN  IF k.t = "oid" /\ k.v \in DOMAIN store /\ ~NotFound(store[k.v])
        THEN [store EXCEPT ![k.v] =
                 OrderDoc(IF body.user = Undefined THEN @.user
                          ELSE CastObjectId(body.user), body.type)]
        ELSE store

\* Order.findByIdAndDelete(id)
FindByIdAndDelete(store, id) ==
    LET k == CastObjectId(id)
    IN  IF k.t = "oid" /\ k.v \in DOMAIN store
        THEN [store EXCEPT ![k.v] = Null]
        ELSE store

\* The status GET /order/:orderID answers with, given what findOne returned
GetOutcomeCheckFirst(user, orderFound) ==
    IF user.role # "Admin" /\ NotFound(orderFound) THEN 400
    ELSE IF NotFound(orderFound) THEN 404
    ELSE IF GetDenied(user, orderFound) THEN 403 ELSE 200
GetOutcome(user, orderFound) ==
    IF ~NotFound(orderFound)
    THEN IF GetDenied(user, orderFound) THEN 403 ELSE 200
    ELSE 404

\* GET /order/:orderID after await Order.findOne
GetOrder(r) ==
    /\ req[r].pc = "h_find" /\ req[r].method = "GET"
    /\ LET orderFound == OrderFindOne(orders, req[r].target)
           status     == GetOutcome(req[r].user, orderFound)
       IN  req' = [req EXCEPT ![r] =
               Respond(req[r], status, IF status = 200 THEN orderFound ELSE Null)]
    /\ UNCHANGED <<users, orders, created, creator, now>>

\* Order.find({user: userID}): the stored orders of that user
OrderFindAll(store, userID) ==
    {[id |-> o, doc |-> store[o]] : o \in {x \in DOMAIN store : ~NotFound(store[x])}}
OrderFindByUser(store, userID) ==
    {[id |-> o, doc |-> store[o]] :
        o \in {x \in DOMAIN store : ~NotFound(store[x])
                                      /\ store[x].user = CastObjectId(userID)}}

\* GET /orders/user/:userID after await Order.find
ListUserOrders(r) ==
    /\ req[r].pc = "h_list"
    /\ req' = [req EXCEPT ![r] =
                  Respond(req[r], 200,
                          [t |-> "list", items |-> OrderFindByUser(orders, req[r].target)])]
    /\ UNCHANGED <<users, orders, created, creator, now>>

\* GET /orders/all after await Order.find({user: req.user.id})
ListOwnOrders(r) ==
    /\ req[r].pc = "h_all"
    /\ req' = [req EXCEPT ![r] =
                  Respond(req[r], 200,
                          [t |-> "list", items |-> OrderFindByUser(orders, req[r].user.id)])]
    /\ UNCHANGED <<users, orders, created, creator, now>>

\* POST /order after await User.exists
PostOrderExistsSkipped(r) ==
    /\ req[r].pc = "h_exists"
    /\ req' = [req EXCEPT ![r] = [req[r] EXCEPT !.pc = "h_save"]]
    /\ UNCHANGED <<users, orders, created, creator, now>>
PostOrderExists(r) ==
    /\ req[r].pc = "h_exists"
    /\ LET userExists == ~NotFound(UserFindOne(users, req[r].user.id))
       IN  req' = [req EXCEPT ![r] =
               IF userExists THEN [req[r] EXCEPT !.pc = "h_save"]
               ELSE Respond(req[r], 400, Null)]
    /\ UNCHANGED <<users, orders, created, creator, now>>

\* The schema's validation of the order's type, run by save()
ValidType(type) == type \in {"Box1", "Box2"}

\* POST /order after await newOrder.save()
PostOrderSaveUnvalidated(r) ==
    /\ req[r].pc = "h_save"
    /\ LET newOrder == NewOrder(req[r].body, req[r].user.id)
       IN  /\ created' = created + 1
           /\ orders' = [orders EXCEPT ![created + 1] = newOrder]
           /\ creator' = [creator EXCEPT ![created + 1] = req[r].user.id.v]
           /\ req' = [req EXCEPT ![r] = Respond(req[r], 201, newOrder)]
    /\ UNCHANGED <<users, now>>
PostOrderSave(r) ==
    /\ req[r].pc = "h_save"
    /\ LET newOrder == NewOrder(req[r].body, req[r].user.id)
       IN  IF ValidType(newOrder.type)
           THEN /\ created' = created + 1
                /\ orders' = [orders EXCEPT ![created + 1] = newOrder]
                /\ creator' = [creator EXCEPT ![created + 1] = req[r].user.id.v]
                /\ req' = [req EXCEPT ![r] = Respond(req[r], 201, newOrder)]
           ELSE /\ req' = [req EXCEPT ![r] = Respond(req[r], 400, Null)]
                /\ UNCHANGED <<orders, created, creator>>
    /\ UNCHANGED <<users, now>>

\* PUT /order after await Order.findOne
PutOrderFindUpdatesFirst(r) ==
    /\ req[r].pc = "h_find" /\ req[r].method = "PUT"
    /\ orders' = FindByIdAndUpdate(orders, req[r].target, req[r].body)
    /\ LET orderFound == OrderFindOne(orders, req[r].target)
           chk        == PutCheck(req[r].user, orderFound)
       IN  req' = [req EXCEPT ![r] =
               CASE chk = "throw" -> Respond(req[r], 400, Null)
                 [] chk = "deny"  -> Respond(req[r], 403, Null)
                 [] OTHER -> IF ~NotFound(orderFound)
                             THEN Respond(req[r], 201, OrderFindOne(orders', req[r].target))
                             ELSE Respond(req[r], 404, Null)]
    /\ UNCHANGED <<users, created, creator, now>>
PutOrderFind(r) ==
    /\ req[r].pc = "h_find" /\ req[r].method = "PUT"
    /\ LET orderFound == OrderFindOne(orders, req[r].target)
           chk        == PutCheck(req[r].user, orderFound)
       IN  req' = [req EXCEPT ![r] =
               CASE chk = "throw" -> Respond(req[r], 400, Null)
                 [] chk = "deny"  -> Respond(req[r], 403, Null)
                 [] OTHER -> IF ~NotFound(orderFound)
                             THEN [req[r] EXCEPT !.pc = "h_update"]
                             ELSE Respond(req[r], 404, Null)]
    /\ UNCHANGED <<users, orders, created, creator, now>>

\* PUT /order after await Order.findByIdAndUpdate
PutOrderUpdate(r) ==
    /\ req[r].pc = "h_update"
    /\ orders' = FindByIdAndUpdate(orders, req[r].target, req[r].body)
    /\ req' = [req EXCEPT ![r] =
                  Respond(req[r], 201, OrderFindOne(orders', req[r].target))]
    /\ UNCHANGED <<users, created, creator, now>>

\* DELETE /order/:orderID after await Order.findOne
DeleteOrderFind(r) ==
    /\ req[r].pc = "h_find" /\ req[r].method = "DELETE"
    /\ LET orderFound == OrderFindOne(orders, req[r].target)
           chk        == DeleteCheck(req[r].user, orderFound)
       IN  req' = [req EXCEPT ![r] =
               CASE chk = "throw" -> Respond(req[r], 400, Null)
                 [] chk = "deny"  -> Respond(req[r], 403, Null)
                 [] OTHER -> [req[r] EXCEPT !.pc = "h_delete"]]
    /\ UNCHANGED <<users, orders, created, creator, now>>

\* DELETE /order/:orderID after await Order.findByIdAndDelete
DeleteOrderApply(r) ==
    /\ req[r].pc = "h_delete"
    /\ orders' = FindByIdAndDelete(orders, req[r].target)
    /\ req' = [req EXCEPT ![r] =
                  Respond(req[r], 200, OrderFindOne(orders, req[r].target))]
    /\ UNCHANGED <<users, created, creator, now>>

\* The response has gone out (or the request was abandoned after a fault):
\* the request and its Principal are discarded.
EndRequest(r) ==
    /\ req[r].pc \in {"done", "fault"}
    /\ req' = [req EXCEPT ![r] = Idle]
    /\ UNCHANGED <<users, orders, created, creator, now>>

\* ------------------------------------------------------------ collaborators
\* The user-management collaborator deletes an identity record.
DeleteIdentity(u) ==
    /\ ~NotFound(users[u])
    /\ users' = [users EXCEPT ![u] = Null]
    /\ UNCHANGED <<orders, created, creator, now, req>>

\* Upstream corruption of an identity record: its role is lost.
CorruptRole(u) ==
    /\ ~NotFound(users[u]) /\ users[u].role # ""
    /\ users' = [users EXCEPT ![u] = UserDoc("")]
    /\ UNCHANGED <<orders, created, creator, now, req>>

\* The user-management collaborator changes the role of an identity.
ChangeRole(u) ==
    /\ ~NotFound(users[u]) /\ users[u].role # ""
    /\ users' = [users EXCEPT ![u] =
                    UserDoc(IF users[u].role = "Admin" THEN "User" ELSE "Admin")]
    /\ UNCHANGED <<orders, created, creator, now, req>>

\* Time passes.
Tick ==
    /\ now < MaxClock
    /\ now' = now + 1
    /\ UNCHANGED <<users, orders, created, creator, req>>

Init ==
    /\ users = [u \in UserIds |-> IF u = 2 THEN UserDoc("Admin") ELSE UserDoc("User")]
    /\ orders = [o \in OrderIds |-> Null]
    /\ created = 0
    /\ creator = [o \in OrderIds |-> 0]
    /\ now = 0
    /\ req = [r \in Slots |-> Idle]


Next ==
    \/ \E r \in Req : Authenticate(r)
    \/ \E r \in Req : UserLookupResolves(r)
    \/ \E r \in Req : GetOrder(r)
    \/ \E r \in Req : PostOrderExists(r)
    \/ \E r \in Req : PostOrderSave(r)
    \/ \E r \in Req : PutOrderFind(r)
    \/ \E r \in Req : PutOrderUpdate(r)
    \/ \E r \in Req : DeleteOrderFind(r)
    \/ \E r \in Req : DeleteOrderApply(r)
    \/ \E r \in Req : ListUserOrders(r)
    \/ \E r \in Req : ListOwnOrders(r)
    \/ \E r \in Req : EndRequest(r)
    \/ \E u \in UserIds : DeleteIdentity(u)
    \/ \E u \in UserIds : CorruptRole(u)
    \/ \E u \in UserIds : ChangeRole(u)
    \/ Tick

Spec == Init /\ [][Next]_vars

\* The same, with the promise of User.findOne always settling.
SpecFair == Spec /\ \A r \in Req : WF_vars(UserLookupResolves(r))

\* Two requests at a time, on the routes GateMethods, against an order store
\* that stays empty.
NextGate ==
    \/ \E r \in Slots : AuthenticateAtGate(r)
    \/ \E r \in Slots : UserLookupResolves(r)
    \/ \E r \in Slots : GetOrder(r)
    \/ \E r \in Slots : DeleteOrderFind(r)
    \/ \E r \in Slots : DeleteOrderApply(r)
    \/ \E r \in Slots : EndRequest(r)
    \/ \E u \in UserIds : DeleteIdentity(u)
    \/ \E u \in UserIds : CorruptRole(u)
    \/ \E u \in UserIds : ChangeRole(u)
    \/ Tick

SpecGate == Init /\ [][NextGate]_vars

TypeOK ==
    /\ created \in 0..MaxOrders
    /\ now \in 0..MaxClock
    /\ \A r \in Req : req[r].status \in {0, 200, 201, 400, 401, 403, 404}

\* ------------------------------------------------------------------ claims
\* What a header carries, read off the header itself.
HasJwt(h) == h.present /\ Len(h.chars) = 3 /\ h.chars[2] = SP /\ h.chars[3].k = "jwt"
JwtOf(h)  == h.chars[3]
Garbled(h) == h.present /\ Len(h.chars) = 3 /\ h.chars[2] = SP
                 /\ h.chars[3].k \notin {"jwt", "sp"}
EmptyToken(h) == h.present /\ (h.chars = <<>> \/ (Len(h.chars) = 2 /\ h.chars[2] = SP))
Started(r) == req[r].pc # "idle"

\* C1: a request without an authorization header is answered 401; no
\* Principal is attached, the handler is not invoked, and neither the token
\* verifier nor the identity store is consulted.
C1_NoHeader401 ==
    \A r \in Req :
        Started(r) /\ ~req[r].header.present =>
            /\ req[r].pc = "done" /\ req[r].status = 401
            /\ req[r].user = Null
            /\ req[r].calls = {}

C1_Witness ==
    \E r \in Req : req[r].pc = "done" /\ ~req[r].header.present /\ req[r].status = 401

Allowed(user, order) == user.role = "Admin" \/ order.user.v = user.id.v

\* The stored order a request in a handler is aimed at.
TargetOrder(r) == orders[req[r].target.v]

\* C5: PUT /order and DELETE /order/:orderID on an existing order: an Admin or
\* the owner goes on to the update (answered 201, the body's fields stored) or
\* to the deletion (answered 200, the order removed); anyone else is answered
\* 403 and the order store is left as it was.
C5_MutateOwnerOrAdmin ==
    [][\A r \in Req :
          /\ req[r].pc = "h_find" /\ req'[r].pc # "h_find"
             /\ req[r].method \in {"PUT", "DELETE"} /\ TargetOrder(r) # Null
             => IF Allowed(req[r].user, TargetOrder(r))
                THEN /\ req'[r].pc = IF req[r].method = "PUT" THEN "h_update"
                                                               ELSE "h_delete"
                     /\ orders' = orders
                ELSE /\ req'[r].pc = "done" /\ req'[r].status = 403
                     /\ orders' = orders
          /\ req[r].pc = "h_update" /\ req'[r].pc # "h_update"
             => /\ req'[r].pc = "done" /\ req'[r].status = 201
                /\ TargetOrder(r) # Null =>
                      orders'[req[r].target.v].type = req[r].body.type
          /\ req[r].pc = "h_delete" /\ req'[r].pc # "h_delete"
             => /\ req'[r].pc = "done" /\ req'[r].status = 200
                /\ orders'[req[r].target.v] = Null]_vars

\* a User who is not the owner has been refused
C5_Witness ==
    \E r \in Req :
        /\ req[r].pc = "done" /\ req[r].status = 403
        /\ req[r].method \in {"PUT", "DELETE"}
        /\ req[r].user # Null /\ req[r].user.role = "User"
        /\ TargetOrder(r) # Null
        /\ TargetOrder(r).user.v # req[r].user.id.v

\* C6: GET /order/:orderID on an existing order answers 200 with the order iff
\* the Principal is Admin or the owner; anyone else gets 403 and no order in
\* the response.
C6_ReadOwnerOrAdmin ==
    [][\A r \in Req :
          /\ req[r].pc = "h_find" /\ req'[r].pc # "h_find"
          /\ req[r].method = "GET" /\ TargetOrder(r) # Null
          => /\ req'[r].pc = "done" /\ orders' = orders
             /\ IF Allowed(req[r].user, TargetOrder(r))
                THEN req'[r].status = 200 /\ req'[r].json = TargetOrder(r)
                ELSE req'[r].status = 403 /\ req'[r].json = Null]_vars

\* a User has read their own order
C6_Witness ==
    \E r \in Req :
        /\ req[r].pc = "done" /\ req[r].status = 200 /\ req[r].method = "GET"
        /\ req[r].user.role = "User"
        /\ TargetOrder(r) # Null /\ req[r].json = TargetOrder(r)
        /\ TargetOrder(r).user.v = req[r].user.id.v

\* C7: no step changes the owner reference of a stored order.
C7_OwnerImmutable ==
    [][\A o \in OrderIds :
          orders[o] # Null /\ orders'[o] # Null => orders'[o].user = orders[o].user]_vars

\* C8: an order that POST /order stores is owned by the Principal of the
\* request that stores it, whatever user the body names.
C8_CreatorOwns ==
    [][\A o \in OrderIds :
          orders[o] = Null /\ orders'[o] # Null =>
             \E r \in Req :
                /\ req[r].pc = "h_save" /\ req'[r].pc = "done"
                /\ req'[r].status = 201
                /\ orders'[o].user = Oid(req[r].user.id.v)]_vars

\* the body named somebody else
C8_Witness ==
    \E r \in Req :
        /\ req[r].pc = "done" /\ req[r].status = 201 /\ req[r].method = "POST"
        /\ req[r].body.user # Undefined
        /\ req[r].body.user.v # req[r].user.id.v
        /\ req[r].json # Null /\ req[r].json.user = Oid(req[r].user.id.v)

\* C9: every change or removal of a stored order is the work of a request
\* whose Principal is Admin or is the identity that created the order.
C9_OnlyCreatorOrAdminMutates ==
    [][\A o \in OrderIds :
          orders[o] # Null /\ orders'[o] # orders[o] =>
             \E r \in Req :
                /\ req[r].pc \in {"h_update", "h_delete"} /\ req'[r].pc = "done"
                /\ \/ req[r].user.role = "Admin"
                   \/ req[r].user.id.v = creator[o]]_vars

\* C10: when the identity lookup of a verified request finds a record without
\* a role, the gate faults: no Principal is attached, the handler is not
\* invoked and no 401 or 403 (no status at all) is sent.
C10_MissingRoleFaults ==
    [][\A r \in Req :
          /\ req[r].pc = "lookup" /\ req'[r].pc # "lookup"
          /\ users[JwtOf(req[r].header).id] # Null
          /\ users[JwtOf(req[r].header).id].role = ""
          => /\ req'[r].pc = "fault"
             /\ req'[r].user = Null
             /\ "handler" \notin req'[r].calls
             /\ req'[r].status = 0]_vars

C10_Witness ==
    \E r \in Req :
        /\ req[r].pc = "fault" /\ req[r].status = 0 /\ req[r].user = Null
        /\ HasJwt(req[r].header)
        /\ users[JwtOf(req[r].header).id] # Null
        /\ users[JwtOf(req[r].header).id].role = ""

\* C11: GET /order/:orderID for an id with no stored order is answered 404,
\* with no order in the response, whatever the role of the Principal.
C11_ReadMissing404 ==
    [][\A r \in Req :
          /\ req[r].pc = "h_find" /\ req'[r].pc # "h_find"
          /\ req[r].method = "GET" /\ TargetOrder(r) = Null
          => /\ req'[r].pc = "done" /\ req'[r].status = 404
             /\ req'[r].json = Null
             /\ orders' = orders]_vars

\* a User, to whom no order could belong, is told 404 and not 403
C11_Witness ==
    \E r \in Req :
        /\ req[r].pc = "done" /\ req[r].method = "GET" /\ req[r].status = 404
        /\ req[r].user # Null /\ req[r].user.role = "User"
        /\ TargetOrder(r) = Null

HasGoodJwt(h) == HasJwt(h) /\ JwtOf(h).sig = "good"
HandlerEntered(r) == "handler" \notin req[r].calls /\ "handler" \in req'[r].calls

\* C12: a handler is entered only from the identity lookup of a request whose
\* token verified, and then the request carries the Principal made of the
\* token's id and of the non-empty role of the record stored for that id; a
\* request that the gate answers (no token, verification failed, no record)
\* ends with 401 or 403, without Principal and without handler.
C12_HandlerHasPrincipal ==
    [][\A r \in Req :
          /\ HandlerEntered(r) =>
                /\ req[r].pc = "lookup"
                /\ {"verify", "findOne"} \subseteq req[r].calls
                /\ HasGoodJwt(req[r].header)
                /\ users[JwtOf(req[r].header).id] # Null
                /\ users[JwtOf(req[r].header).id].role \in {"User", "Admin"}
                /\ req'[r].user = [id |-> Str(JwtOf(req[r].header).id),
                                   role |-> users[JwtOf(req[r].header).id].role]
          /\ req[r].pc = "idle" /\ req'[r].pc = "done" =>
                /\ req'[r].status \in {401, 403}
                /\ req'[r].user = Null /\ "handler" \notin req'[r].calls
          /\ req[r].pc = "lookup" /\ req'[r].pc # "lookup"
             /\ users[JwtOf(req[r].header).id] = Null =>
                /\ req'[r].pc = "done" /\ req'[r].status = 403
                /\ req'[r].user = Null /\ "handler" \notin req'[r].calls]_vars

\* the admin's request is in its handler as Admin
C12_Witness ==
    \E r \in Req :
        /\ "handler" \in req[r].calls /\ req[r].pc = "h_find"
        /\ HasGoodJwt(req[r].header) /\ JwtOf(req[r].header).id = 2
        /\ req[r].user = [id |-> Str(2), role |-> "Admin"]

\* C13: a request without header, with an empty header or with an empty token
\* part is answered 401.
C13_EmptyCredential401 ==
    \A r \in Req :
        Started(r) /\ (~req[r].header.present \/ EmptyToken(req[r].header)) =>
            req[r].pc = "done" /\ req[r].status = 401

NonBearer(h) == h.present /\ h.chars # <<>> /\ h.chars[1] # Word("Bearer")

\* C14: a request whose header is not in the bearer scheme is rejected by the
\* gate: it is never verified into a lookup, a Principal or a handler.
C14_NonBearerRejected ==
    \A r \in Req :
        Started(r) /\ NonBearer(req[r].header) =>
            /\ req[r].pc = "done" /\ req[r].status \in {401, 403}
            /\ req[r].user = Null
            /\ "handler" \notin req[r].calls

\* C15: GET /orders/user/:userID: a Principal that is not Admin is answered
\* 403 as soon as the handler is entered, before Order.find is issued and with
\* no order in the response, even for its own id; an Admin goes on to the query
\* and is answered 200 with the stored orders of that user.
C15_ListUserAdminOnly ==
    [][\A r \in Req :
          /\ HandlerEntered(r) /\ req[r].method = "LIST_USER" =>
                IF users[JwtOf(req[r].header).id].role = "Admin"
                THEN /\ req'[r].pc = "h_list" /\ req'[r].status = 0
                ELSE /\ req'[r].pc = "done" /\ req'[r].status = 403
                     /\ req'[r].json = Null
                     /\ "Order.find" \notin req'[r].calls
          /\ req[r].pc = "h_list" /\ req'[r].pc # "h_list" =>
                /\ req[r].user.role = "Admin"
                /\ req'[r].pc = "done" /\ req'[r].status = 200
                /\ req'[r].json.items =
                      {[id |-> o, doc |-> orders[o]] :
                          o \in {x \in OrderIds : orders[x] # Null
                                    /\ orders[x].user.v = req[r].target.v}}
          /\ orders' # orders => req[r].method # "LIST_USER"]_vars

\* a User asking for the orders of its own id is refused
C15_Witness ==
    \E r \in Req :
        /\ req[r].pc = "done" /\ req[r].method = "LIST_USER" /\ req[r].status = 403
        /\ req[r].user # Null /\ req[r].user.role = "User"
        /\ req[r].target = req[r].user.id

\* C16 as stated: PUT /order for an id with no stored order is answered 400,
\* whoever the Principal is.
C16_UpdateMissing400 ==
    [][\A r \in Req :
          /\ req[r].pc = "h_find" /\ req'[r].pc # "h_find"
          /\ req[r].method = "PUT" /\ TargetOrder(r) = Null
          => req'[r].pc = "done" /\ req'[r].status = 400 /\ orders' = orders]_vars

\* C16 amended: PUT /order for an id with no stored order is answered 400 when
\* the Principal is not Admin and 404 when it is Admin; nothing is stored.
C16_UpdateMissing400Or404 ==
    [][\A r \in Req :
          /\ req[r].pc = "h_find" /\ req'[r].pc # "h_find"
          /\ req[r].method = "PUT" /\ TargetOrder(r) = Null
          => /\ req'[r].pc = "done" /\ orders' = orders
             /\ req'[r].json = Null
             /\ req'[r].status = IF req[r].user.role = "Admin" THEN 404 ELSE 400]_vars

C16_Witness ==
    \E r \in Req :
        /\ req[r].pc = "done" /\ req[r].method = "PUT" /\ req[r].status = 400
        /\ req[r].user # Null /\ req[r].user.role = "User"
        /\ TargetOrder(r) = Null

C18_RoleFromRecord ==
    [][\A r \in Req :
          HandlerEntered(r) =>
             /\ req'[r].user.id = Str(JwtOf(req[r].header).id)
             /\ req'[r].user.role = users[JwtOf(req[r].header).id].role
             /\ req'[r].user.role = req'[r].seen.role]_vars

\* the payload says Admin, the record says User
C18_Witness ==
    \E r \in Req :
        /\ req[r].user # Null /\ req[r].user.role = "User"
        /\ HasGoodJwt(req[r].header) /\ JwtOf(req[r].header).role = "Admin"

\* What the gate did with a request: answered it, faulted, or passed it on
\* with a Principal.
Decided(r) == req[r].pc \notin {"idle", "lookup"}
GateOut(r) ==
    [passed |-> "handler" \in req[r].calls, user |-> req[r].user,
     fault |-> req[r].pc = "fault",
     status |-> IF "handler" \in req[r].calls THEN 0 ELSE req[r].status]

C20_InvalidToken401 ==
    \A r \in Req :
        Started(r) /\ (Garbled(req[r].header)
                       \/ (HasJwt(req[r].header) /\ JwtOf(req[r].header).sig # "good")) =>
            req[r].pc = "done" /\ req[r].status = 401

\* C21: a POST /order whose order data the schema rejects is answered 400
\* without an order in the response, and no order of a rejected type is ever
\* in the store.
C21_RejectedOrder400 ==
    /\ \A r \in Req :
          /\ req[r].pc = "done" /\ req[r].method = "POST"
          /\ "handler" \in req[r].calls /\ req[r].body.type \notin {"Box1", "Box2"}
          => req[r].status = 400 /\ req[r].json = Null
    /\ \A o \in OrderIds : orders[o] # Null => orders[o].type \in {"Box1", "Box2"}

\* the identity is still there: it is the type that was refused
C21_Witness ==
    \E r \in Req :
        /\ req[r].pc = "done" /\ req[r].method = "POST" /\ req[r].status = 400
        /\ req[r].body.type = "Box3"
        /\ users[req[r].user.id.v] # Null
        /\ created = 0

\* C22: a request whose token verified and whose identity lookup is pending
\* is eventually answered or handed to its handler.
C22_GateTerminates ==
    \A r \in Req :
        (req[r].pc = "lookup") ~> (req[r].pc = "done" \/ "handler" \in req[r].calls)

\* C23: a response ends the request (nothing runs after it, neither a handler
\* nor a second response); a request the gate answers has no Principal and no
\* handler; verification and identity lookup are made once, on arrival, and
\* their result is consumed once.
C23_OneOutcome ==
    [][\A r \in Req :
          /\ req'[r].status # 0 => req'[r].pc = "done"
          /\ req[r].pc = "done" => req'[r] = req[r] \/ req'[r] = Idle
          /\ req'[r].pc = "done" /\ "handler" \notin req'[r].calls =>
                req'[r].user = Null /\ req'[r].status \in {401, 403}
          /\ req'[r].pc = "lookup" /\ req[r].pc # "lookup" => req[r].pc = "idle"
          /\ req[r].pc = "lookup" /\ req'[r].pc # "lookup" =>
                /\ req'[r].pc # "idle"
                /\ req'[r].calls \ {"handler", "Order.find"} = req[r].calls
          /\ req[r].pc \notin {"idle", "lookup", "done", "fault"} =>
                "handler" \in req[r].calls /\ req[r].calls \subseteq req'[r].calls]_vars

C23_Witness ==
    \E r \in Req :
        /\ req[r].pc = "done" /\ req[r].status = 403
        /\ req[r].calls = {"verify", "findOne"}
        /\ req[r].user = Null

\* C24: a DELETE /order/:orderID that is answered 200 found an order to
\* delete.
C24_DeleteMissingNotSuccess ==
    \A r \in Req :
        req[r].pc = "done" /\ req[r].method = "DELETE" /\ req[r].status = 200
            => req[r].json # Null

\* C25: the step in which a request is answered 400, 401, 403 or 404 leaves
\* the order store as it was, and the order store changes only in a step that
\* answers 200 or 201.
C25_ErrorLeavesOrders ==
    [][/\ \A r \in Req :
             /\ req[r].pc # "done" /\ req'[r].pc = "done"
             /\ req'[r].status \in {400, 401, 403, 404}
             => orders' = orders /\ created' = created
       /\ orders' # orders =>
             \E r \in Req : /\ req[r].pc # "done" /\ req'[r].pc = "done"
                            /\ req'[r].status \in {200, 201}]_vars

\* a refused PUT or DELETE on an order that is there
C25_Witness ==
    \E r \in Req :
        /\ req[r].pc = "done" /\ req[r].status = 403
        /\ req[r].method \in {"PUT", "DELETE"} /\ "handler" \in req[r].calls
        /\ TargetOrder(r) # Null /\ created = MaxOrders

\* C26: no step of a request writes the identity store, whatever the gate
\* decides: it changes only while every request stands still.
C26_GateReadsOnly ==
    [][\A r \in Slots : req'[r] # req[r] => users' = users]_vars

\* the gate has met a record without role and left it as it is
C26_Witness ==
    \E r \in Slots :
        /\ req[r].pc = "fault" /\ req[r].seen # Null /\ req[r].seen.role = ""
        /\ users[JwtOf(req[r].header).id] = req[r].seen

\* C27: the Principal of a request stays as it was attached until the request
\* ends, and GET /order/:orderID decides on the role it carries, not on the
\* identity record of that moment.
C27_PrincipalSnapshot ==
    [][\A r \in Req :
          /\ req[r].user # Null /\ req'[r].pc # "idle" => req'[r].user = req[r].user
          /\ req[r].pc = "h_find" /\ req'[r].pc # "h_find"
             /\ req[r].method = "GET" /\ TargetOrder(r) # Null
             => (req'[r].status = 200 <=>
                    \/ req[r].user.role = "Admin"
                    \/ TargetOrder(r).user.v = req[r].user.id.v)]_vars

\* admitted as Admin, the record is no longer Admin, the order of another
\* user is read all the same
C27_Witness ==
    \E r \in Req :
        /\ req[r].pc = "done" /\ req[r].method = "GET" /\ req[r].status = 200
        /\ req[r].user.role = "Admin"
        /\ users[req[r].user.id.v] # Null /\ users[req[r].user.id.v].role = "User"
        /\ req[r].json.user.v # req[r].user.id.v

\* C28: while another request with the token of a different identity is in
\* flight, the request that enters its handler carries the id of its own token
\* and the role of the record of that id, and the other request is untouched.
C28_NoInterference ==
    [][\A a, b \in Slots :
          /\ a # b /\ HandlerEntered(a)
          /\ req[b].pc # "idle" /\ HasGoodJwt(req[b].header)
          /\ JwtOf(req[b].header).id # JwtOf(req[a].header).id
          => /\ req'[a].user = [id |-> Str(JwtOf(req[a].header).id),
                                role |-> users[JwtOf(req[a].header).id].role]
             /\ req'[b] = req[b]]_vars

C28_Witness ==
    \E a, b \in Slots :
        /\ a # b /\ req[a].pc = "h_find" /\ req[b].pc = "h_find"
        /\ req[a].user.id = Str(1) /\ JwtOf(req[a].header).id = 1
        /\ req[b].user.id = Str(2) /\ JwtOf(req[b].header).id = 2

\* C29: when User.exists of POST /order finds no record of the Principal's
\* id the answer is 400 and nothing is stored; otherwise the handler goes on
\* to save; and an order id is handed out only from there.
C29_PostRechecksIdentity ==
    [][\A r \in Req :
          /\ req[r].pc = "h_exists" /\ req'[r].pc # "h_exists" =>
                IF users[req[r].user.id.v] = Null
                THEN /\ req'[r].pc = "done" /\ req'[r].status = 400
                     /\ req'[r].json = Null
                     /\ orders' = orders /\ created' = created
                ELSE /\ req'[r].pc = "h_save"
                     /\ orders' = orders /\ created' = created
          /\ created' # created => \E q \in Req : req[q].pc = "h_save"]_vars

\* the order was acceptable: it is the identity that had gone
C29_Witness ==
    \E r \in Req :
        /\ req[r].pc = "done" /\ req[r].method = "POST" /\ req[r].status = 400
        /\ req[r].body.type = "Box1" /\ "handler" \in req[r].calls
        /\ users[req[r].user.id.v] = Null

\* C30: GET /orders/all is answered 200 with exactly the stored orders whose
\* owner is the Principal's id, whatever the role.
C30_ListOwnOrders ==
    [][\A r \in Req :
          req[r].pc = "h_all" /\ req'[r].pc # "h_all" =>
             /\ req'[r].pc = "done" /\ req'[r].status = 200
             /\ req'[r].json.items =
                   {[id |-> o, doc |-> orders[o]] :
                       o \in {x \in OrderIds : orders[x] # Null
                                 /\ orders[x].user.v = req[r].user.id.v}}
             /\ orders' = orders]_vars

\* an Admin is not shown the order of somebody else
C30_Witness ==
    \E r \in Req :
        /\ req[r].pc = "done" /\ req[r].method = "LIST_ALL" /\ req[r].status = 200
        /\ req[r].user.role = "Admin"
        /\ \E o \in OrderIds : orders[o] # Null /\ orders[o].user.v # req[r].user.id.v
        /\ req[r].json.items = {}

====
